---- MODULE Spec2Model ----
(***************************************************************************)
(* A model of the physics/motion core of CallOfFerris:                     *)
(*   - src/src/components/player.rs : the Player's vertical launch/fall    *)
(*     state machine (go_boom, update), in IEEE-754 binary32 arithmetic;   *)
(*   - src/src/physics.rs : the Physics facade over the body store, the    *)
(*     collider store and the contact graph.                               *)
(***************************************************************************)
EXTENDS Integers, Sequences, FiniteSets, TLC

VARIABLES
    player,     \* the Player struct (player.rs:9-17)
    booms,      \* history: number of go_boom() calls made so far
    ticks,      \* history: number of update() calls made so far
    airborne,   \* history: number of update(true) calls made so far
    run,        \* history: the go_boom() calls made since the last update()
    physics,    \* the Physics struct (physics.rs:41-48)
    last,       \* the last call made on Physics and how it ended
    issued,     \* history: every handle a create_* call returned, with its tag
    destroyed   \* history: the live handles destroy_body was called with

playerVars == <<player, booms, ticks, airborne, run>>

physicsVars == <<physics, last, issued, destroyed>>

-----------------------------------------------------------------------------
(* Bounds of the model.                                                    *)

\* Player::new(pos_x) is called with pos_x drawn from 0..MaxPosX.
MaxPosX == 2
\* At most MaxBooms go_boom() calls in a run of SpecPlayer.
MaxBooms == 2
\* At most MaxTicks update() calls in a run of SpecPlayer.
MaxTicks == 7
\* At most MaxCreates create_* calls in a run of SpecPhysics.
MaxCreates == 2

-----------------------------------------------------------------------------
(* f32: IEEE-754 binary32 values and round-to-nearest-even arithmetic.     *)
(* A value is <<m, e>> and stands for m * 2^e; zero is <<0, 0>>; any other *)
(* value is normalised to 2^23 <= |m| < 2^24 (24 significant bits).  The   *)
(* exponent range is not limited: no run of the model comes near the       *)
(* overflow or subnormal range of f32, and no computation of the Player    *)
(* yields a negative zero.                                                 *)

Abs(x) == IF x < 0 THEN -x ELSE x

Sign(x) == IF x < 0 THEN -1 ELSE 1

\* The number of bits of n: the least k with n < 2^k.
BitLen[n \in Nat] == IF n = 0 THEN 0 ELSE 1 + BitLen[n \div 2]

F32Zero == <<0, 0>>

\* The f32 nearest to sg * S * 2^e (S >= 0), ties to even.
F32Round(sg, S, e) ==
    IF S = 0 THEN F32Zero
    ELSE LET len == BitLen[S] IN
         IF len <= 24
         THEN <<sg * S * 2^(24 - len), e - (24 - len)>>
         ELSE LET k    == len - 24
                  q    == S \div 2^k
                  r    == S % 2^k
                  half == 2^(k - 1)
                  up   == r > half \/ (r = half /\ q % 2 = 1)
                  q2   == IF up THEN q + 1 ELSE q
              IN  IF q2 = 2^24 THEN <<sg * 2^23, e + k + 1>>
                  ELSE <<sg * q2, e + k>>

\* m * 2^3 shifted right by d bits, the bits shifted out kept as a sticky
\* lowest bit (guard, round and sticky bits of a hardware adder).
ShiftSticky(m, d) ==
    IF d >= 28 THEN 1
    ELSE LET q == (m * 8) \div 2^d
             r == (m * 8) % 2^d
         IN  IF r # 0 /\ q % 2 = 0 THEN q + 1 ELSE q

\* The representations of f32 values.
F32 == Int \X Int

\* a + b in f32 (the `+=` of player.rs:72 and, negated, the `-=` of 57, 63, 73).
F32Add[a \in F32, b \in F32] ==
    IF a[1] = 0 THEN b
    ELSE IF b[1] = 0 THEN a
    ELSE LET aBig == a[2] > b[2] \/ (a[2] = b[2] /\ Abs(a[1]) >= Abs(b[1]))
             big   == IF aBig THEN a ELSE b
             small == IF aBig THEN b ELSE a
             d     == big[2] - small[2]
             Mb    == Abs(big[1]) * 8
             Ms    == ShiftSticky(Abs(small[1]), d)
             S     == IF Sign(big[1]) = Sign(small[1]) THEN Mb + Ms ELSE Mb - Ms
         IN  F32Round(Sign(big[1]), S, big[2] - 3)

F32Neg(a) == <<-a[1], a[2]>>

\* a / 2.0 in f32 (exact).
F32Half(a) == IF a[1] = 0 THEN a ELSE <<a[1], a[2] - 1>>

F32Sub(a, b) == F32Add[a, F32Neg(b)]

\* a < 0. and a > 0. in f32.
F32Neg0(a) == a[1] < 0
F32Pos0(a) == a[1] > 0

\* The least k >= 0 with n * 2^k >= lo * d, for n, d > 0.
ScaleUp(n, d, lo) ==
    LET up[x \in Nat] == IF x >= lo * d THEN 0 ELSE 1 + up[2 * x] IN up[n]

\* The f32 a decimal literal n/d denotes (0 < d < 256, |n|/d < 2^24): the
\* nearest f32, ties to even, as rustc converts the literals 0.1 and 2.5.
F32Lit(n, d) ==
    IF n = 0 THEN F32Zero
    ELSE LET k == ScaleUp(Abs(n), d, 2^23)
             N == Abs(n) * 2^k
             q == N \div d
             r == N % d
             up == 2 * r > d \/ (2 * r = d /\ q % 2 = 1)
         IN  F32Round(Sign(n), IF up THEN q + 1 ELSE q, -k)

-----------------------------------------------------------------------------
(* Player (src/src/components/player.rs).                                  *)

\* Player::new(pos_x)
new(pos_x) ==
    [ pos_x      |-> F32Lit(pos_x, 1),
      ammo       |-> 10,
      pos_y      |-> F32Lit(0, 1),
      gravity    |-> F32Lit(1, 10),
      velocity   |-> F32Lit(0, 1),
      going_boom |-> FALSE ]

\* Mutant of go_boom: the impulse is assigned, not subtracted.
go_boom_Assign(p) ==
    [p EXCEPT !.velocity   = F32Lit(-25, 10),
              !.going_boom = TRUE]

\* Player::go_boom(&mut self)
go_boom(p) ==
    [p EXCEPT !.velocity   = F32Sub(p.velocity, F32Lit(25, 10)),
              !.going_boom = TRUE]

\* Mutant of SubStepA: the landing is taken at pos_y <= 0.
SubStepA_LandAtZero(p) ==
    IF p.going_boom
    THEN LET y == F32Sub(p.pos_y, p.velocity) IN
         IF ~F32Pos0(y)
         THEN [p EXCEPT !.going_boom = FALSE, !.pos_y = F32Lit(0, 1)]
         ELSE [p EXCEPT !.pos_y = y]
    ELSE p

\* Mutant of SubStepA: the landing resets going_boom but does not clamp
\* pos_y.
SubStepA_NoClamp(p) ==
    IF p.going_boom
    THEN LET y == F32Sub(p.pos_y, p.velocity) IN
         IF F32Neg0(y)
         THEN [p EXCEPT !.going_boom = FALSE, !.pos_y = y]
         ELSE [p EXCEPT !.pos_y = y]
    ELSE p

\* Mutant of SubStepA: the landing clamps pos_y but leaves going_boom set.
SubStepA_NoReset(p) ==
    IF p.going_boom
    THEN LET y == F32Sub(p.pos_y, p.velocity) IN
         IF F32Neg0(y)
         THEN [p EXCEPT !.pos_y = F32Lit(0, 1)]
         ELSE [p EXCEPT !.pos_y = y]
    ELSE p

\* Sub-step a of Player::update: `if self.going_boom { ... }`
SubStepA(p) ==
    IF p.going_boom
    THEN LET y == F32Sub(p.pos_y, p.velocity) IN
         IF F32Neg0(y)
         THEN [p EXCEPT !.going_boom = FALSE, !.pos_y = F32Lit(0, 1)]
         ELSE [p EXCEPT !.pos_y = y]
    ELSE p

\* Mutant of SubStepB: gravity is applied whether or not pos_y > 0.
SubStepB_Always(p, gonna_boom) ==
    LET v == F32Add[p.velocity, p.gravity] IN
    [p EXCEPT !.velocity = v, !.pos_y = F32Sub(p.pos_y, v)]

\* Mutant of SubStepB: gravity is applied only when pos_y > 0.
SubStepB_NoFlag(p, gonna_boom) ==
    IF F32Pos0(p.pos_y)
    THEN LET v == F32Add[p.velocity, p.gravity] IN
         [p EXCEPT !.velocity = v, !.pos_y = F32Sub(p.pos_y, v)]
    ELSE p

\* Sub-step b of Player::update: `if self.pos_y > 0. || gonna_boom { ... }`
SubStepB(p, gonna_boom) ==
    IF F32Pos0(p.pos_y) \/ gonna_boom
    THEN LET v == F32Add[p.velocity, p.gravity] IN
         [p EXCEPT !.velocity = v, !.pos_y = F32Sub(p.pos_y, v)]
    ELSE p

\* Mutant of update: the two sub-steps run in the other order.
update_Swapped(p, gonna_boom) == SubStepA(SubStepB(p, gonna_boom))

\* Player::update(&mut self, gonna_boom)
update(p, gonna_boom) == SubStepB(SubStepA(p), gonna_boom)

-----------------------------------------------------------------------------
(* The stores of the engine (physics.rs:44-45, 61-62).  DefaultBodySet and *)
(* DefaultColliderSet are generational arenas: a handle is a slot index    *)
(* and the generation at which the slot was filled; a freed slot is reused *)
(* by the next insert, under a later generation.                           *)

ArenaNew == [items |-> <<>>, generation |-> 0, free |-> <<>>]

Handle(i, g) == [index |-> i, generation |-> g]

\* A handle no store ever issues (calls that take or return no handle).
NoHandle == Handle(-1, -1)

\* Mutant of ArenaNextSlot: the fresh slot is off by one.
ArenaNextSlot_OffByOne(arena) ==
    IF arena.free # <<>> THEN Head(arena.free)
    ELSE IF Len(arena.items) = 0 THEN 0 ELSE Len(arena.items) - 1

\* The slot the next insert fills: the last slot freed, else a fresh one.
ArenaNextSlot(arena) ==
    IF arena.free # <<>> THEN Head(arena.free) ELSE Len(arena.items)

\* insert(value): [arena |-> the arena afterwards, handle |-> the new handle]
ArenaInsert(arena, value) ==
    LET slot  == ArenaNextSlot(arena)
        entry == [occupied |-> TRUE, generation |-> arena.generation,
                  value |-> value]
    IN  [ arena  |-> [ items |-> IF slot < Len(arena.items)
                                 THEN [arena.items EXCEPT ![slot + 1] = entry]
                                 ELSE Append(arena.items, entry),
                       generation |-> arena.generation,
                       free |-> IF arena.free # <<>> THEN Tail(arena.free)
                                ELSE <<>> ],
          handle |-> Handle(slot, arena.generation) ]

\* Mutant of ArenaContains: the slot is looked up, its generation ignored.
ArenaContains_NoGeneration(arena, h) ==
    /\ h.index >= 0
    /\ h.index < Len(arena.items)
    /\ arena.items[h.index + 1].occupied

\* get(h).is_some(): the slot is filled, at the generation of the handle.
ArenaContains(arena, h) ==
    /\ h.index >= 0
    /\ h.index < Len(arena.items)
    /\ arena.items[h.index + 1].occupied
    /\ arena.items[h.index + 1].generation = h.generation

\* get(h).unwrap()
ArenaGet(arena, h) == arena.items[h.index + 1].value

\* remove(h): frees the slot and starts a new generation; None (no change)
\* when the handle does not resolve.
ArenaRemove(arena, h) ==
    IF ArenaContains(arena, h)
    THEN [ items |-> [arena.items EXCEPT ![h.index + 1] = [occupied |-> FALSE]],
           generation |-> arena.generation + 1,
           free |-> <<h.index>> \o arena.free ]
    ELSE arena

\* The handles that resolve in the arena.
ArenaHandles(arena) ==
    { Handle(i - 1, arena.items[i].generation) :
        i \in {j \in 1..Len(arena.items) : arena.items[j].occupied} }

-----------------------------------------------------------------------------
(* Physics (src/src/physics.rs).                                           *)

\* enum ObjectData
ObjectData == {"Ground", "Player", "Enemy", "Bullet", "Barrel"}

\* The positions and (width, height) sizes the create_* calls are given, and
\* the positions a body can be moved to.  Where a body is plays no part in
\* handle resolution or tagging; which colliders touch after a step is
\* drawn from ContactGraphs instead of being computed from the geometry.
Positions == {<<0, 0>>}
Sizes == {<<2, 2>>}

\* Physics::new()
PhysicsNew ==
    [ body_set     |-> ArenaNew,
      collider_set |-> ArenaNew,
      contacts     |-> {} ]

\* Cuboid::new(Vector2::new(width / 2.0 - 0.01, height / 2.0 - 0.01))
Cuboid(width, height) ==
    << F32Sub(F32Half(F32Lit(width, 1)), F32Lit(1, 100)),
       F32Sub(F32Half(F32Lit(height, 1)), F32Lit(1, 100)) >>

\* RigidBodyDesc::new().position(..).mass(..).linear_damping(..).status(..)
RigidBody(pos, mass, damping, status) ==
    [ position |-> pos, mass |-> mass, linear_damping |-> damping,
      status |-> status ]

\* ColliderDesc::new(shape).material(BasicMaterial::new(0.0, 0.0))
\*     .user_data(tag).build(BodyPartHandle(body, 0))
\* A collider is built without a node in the contact graph (`registered`
\* is FALSE); the next step gives it one.
Collider(width, height, tag, body) ==
    [ shape |-> Cuboid(width, height), material |-> <<0, 0>>,
      user_data |-> tag, body |-> body, registered |-> FALSE ]

\* Mutant of Create: a second collider is built on the body.
Create_TwoColliders(ph, body, width, height, tag) ==
    LET b  == ArenaInsert(ph.body_set, body)
        c1 == ArenaInsert(ph.collider_set, Collider(width, height, tag, b.handle))
        c2 == ArenaInsert(c1.arena, Collider(width, height, tag, b.handle))
    IN  [ physics |-> [ph EXCEPT !.body_set = b.arena,
                                 !.collider_set = c2.arena],
          handle  |-> b.handle ]

\* The shared shape of the five create_* functions: the body is inserted in
\* the body set, then its collider in the collider set; the body's handle
\* is returned.
Create(ph, body, width, height, tag) ==
    LET b == ArenaInsert(ph.body_set, body)
        c == ArenaInsert(ph.collider_set, Collider(width, height, tag, b.handle))
    IN  [ physics |-> [ph EXCEPT !.body_set = b.arena,
                                 !.collider_set = c.arena],
          handle  |-> b.handle ]

create_tile(ph, pos, width, height) ==
    Create(ph, RigidBody(pos, 0, 0, "Static"), width, height, "Ground")

create_player(ph, pos, width, height) ==
    Create(ph, RigidBody(pos, 10, 1, "Dynamic"), width, height, "Player")

create_enemy(ph, pos, width, height) ==
    Create(ph, RigidBody(pos, 10, 1, "Dynamic"), width, height, "Enemy")

\* Mutant of create_bullet: the mass and damping of the builder's defaults.
create_bullet_Defaults(ph, pos, width, height) ==
    Create(ph, RigidBody(pos, 0, 0, "Dynamic"), width, height, "Bullet")

\* Mutant of create_barrel: the tag of the function it was copied from.
create_barrel_EnemyTag(ph, pos, width, height) ==
    Create(ph, RigidBody(pos, 10, 1, "Dynamic"), width, height, "Enemy")

create_barrel(ph, pos, width, height) ==
    Create(ph, RigidBody(pos, 10, 1, "Dynamic"), width, height, "Barrel")

create_bullet(ph, pos, width, height) ==
    Create(ph, RigidBody(pos, 10, 1, "Dynamic"), width, height, "Bullet")

\* Mutant of get_rigid_body_ok: the slot is looked up, its generation ignored.
get_rigid_body_ok_NoGeneration(ph, handle) ==
    ArenaContains_NoGeneration(ph.body_set, handle)

\* Physics::get_rigid_body(handle): whether
\* body_set.rigid_body(handle).expect("Body not found!") returns (TRUE) or
\* panics (FALSE).
get_rigid_body_ok(ph, handle) == ArenaContains(ph.body_set, handle)

\* Physics::get_rigid_body(handle): the body returned.
get_rigid_body(ph, handle) == ArenaGet(ph.body_set, handle)

\* Physics::get_rigid_body_mut(handle): whether
\* body_set.rigid_body_mut(handle).expect("Body not found!") returns.
get_rigid_body_mut_ok(ph, handle) == ArenaContains(ph.body_set, handle)

\* The caller of get_rigid_body_mut moves the body through the view it got.
set_position(ph, handle, pos) ==
    [ph EXCEPT !.body_set.items[handle.index + 1].value.position = pos]

\* The other collider of contact c, seen from collider h.
OtherEnd(c, h) == IF c[1] = h THEN c[2] ELSE c[1]

\* geometrical_world.contacts_with(&collider_set, object, true): whether
\* the call returns.  It returns None when `object` is not in the collider
\* set, and panics (expect on the collider's graph index) when the
\* collider is in the set but has no node in the contact graph yet, which
\* is the case from its creation to the next step.
contacts_with_ok(ph, object) ==
    \/ ~ArenaContains(ph.collider_set, object)
    \/ ArenaGet(ph.collider_set, object).registered

\* geometrical_world.contacts_with(&collider_set, object, true), flattened:
\* nothing when the collider of `object` is not in the collider set, else
\* the contacts of the graph that `object` is part of.  The graph is
\* undirected and walked from the node of `object`: each contact comes as
\* (handle1, handle2) with handle1 = object, in whichever order the step
\* stored it.  A contact is yielded with references to its two colliders,
\* looked up in the collider set: one whose collider has left the set is
\* passed over.
contacts_with(ph, object) ==
    IF ~ArenaContains(ph.collider_set, object) THEN {}
    ELSE { <<object, OtherEnd(c, object)>> :
             c \in { d \in ph.contacts :
                       /\ object \in {d[1], d[2]}
                       /\ ArenaContains(ph.collider_set, d[1])
                       /\ ArenaContains(ph.collider_set, d[2]) } }

\* Physics::get_user_data: whether both collider_set.get(..).unwrap() return.
get_user_data_ok(ph, obj1, obj2) ==
    /\ ArenaContains(ph.collider_set, obj1)
    /\ ArenaContains(ph.collider_set, obj2)

\* Physics::get_user_data(obj1, obj2)
get_user_data(ph, obj1, obj2) ==
    << ArenaGet(ph.collider_set, obj1).user_data,
       ArenaGet(ph.collider_set, obj2).user_data >>

\* Physics::collisions(object): whether the call returns: contacts_with
\* does, and so does get_user_data on every contact it yields.
collisions_ok(ph, object) ==
    /\ contacts_with_ok(ph, object)
    /\ \A c \in contacts_with(ph, object) : get_user_data_ok(ph, c[1], c[2])

\* Mutant of collisions: the first handle of the contact is returned as
\* the other body.
collisions_FirstHandle(ph, object) ==
    { [tags |-> get_user_data(ph, c[1], c[2]), other |-> c[1]] :
        c \in contacts_with(ph, object) }

\* Physics::collisions(object): the entries returned (the manifold left out).
collisions(ph, object) ==
    { [tags |-> get_user_data(ph, c[1], c[2]), other |-> c[2]] :
        c \in contacts_with(ph, object) }

\* Mutant of collisions_self: the contacts returned are taken out of the
\* contact graph.
collisions_self_Drain(ph, object) ==
    [ph EXCEPT !.contacts = ph.contacts \ contacts_with(ph, object)]

\* Physics::collisions(&mut self, object): the Physics the call leaves.
\* contacts_with and get_user_data read the stores; nothing is written.
collisions_self(ph, object) == ph

\* Mutant of destroy_body: the body is left in the body set.
destroy_body_ColliderOnly(ph, handle) ==
    [ph EXCEPT !.collider_set = ArenaRemove(ph.collider_set, handle)]

\* Mutant of destroy_body: the collider is left in the collider set.
destroy_body_BodyOnly(ph, handle) ==
    [ph EXCEPT !.body_set = ArenaRemove(ph.body_set, handle)]

\* Physics::destroy_body(handle)
destroy_body(ph, handle) ==
    [ph EXCEPT !.body_set     = ArenaRemove(ph.body_set, handle),
               !.collider_set = ArenaRemove(ph.collider_set, handle)]

\* The collider `c` is attached to a Dynamic body.
IsDynamic(ph, c) ==
    ArenaGet(ph.body_set, ArenaGet(ph.collider_set, c).body).status = "Dynamic"

\* The contact graphs a step can leave over the colliders `hs` (each on a
\* body of the body set): for every two colliders, not both on Static
\* bodies, either no contact or one, stored in either order.
ContactGraphs(ph, hs) ==
    { g \in SUBSET {c \in hs \X hs :
                      c[1] # c[2] /\ (IsDynamic(ph, c[1]) \/ IsDynamic(ph, c[2]))} :
        \A c \in g : <<c[2], c[1]>> \notin g }

\* What mechanical_world.step does to the collider set before it detects
\* contacts: the colliders attached to a body no longer in the body set go.
RECURSIVE RemoveAll(_, _)
RemoveAll(arena, hs) ==
    IF hs = {} THEN arena
    ELSE LET h == CHOOSE x \in hs : TRUE
         IN  RemoveAll(ArenaRemove(arena, h), hs \ {h})

Orphans(ph) ==
    { h \in ArenaHandles(ph.collider_set) :
        ~ArenaContains(ph.body_set, ArenaGet(ph.collider_set, h).body) }

\* What the step does to the colliders it finds in the collider set: each
\* gets its node in the contact graph.
Register(arena) ==
    [ arena EXCEPT !.items =
        [ i \in 1..Len(arena.items) |->
            IF arena.items[i].occupied
            THEN [arena.items[i] EXCEPT !.value.registered = TRUE]
            ELSE arena.items[i] ] ]

\* The body set after a step in which the Dynamic bodies `moved` end at
\* the positions `to` gives them.
Integrate(arena, to) ==
    [ arena EXCEPT !.items =
        [ i \in 1..Len(arena.items) |->
            IF arena.items[i].occupied /\ arena.items[i].value.status = "Dynamic"
            THEN [arena.items[i] EXCEPT !.value.position = to[i]]
            ELSE arena.items[i] ] ]

\* Physics::step(): the bodies move, and the contact graph is refreshed to
\* `graph`, a graph over the colliders now in the collider set.
step(ph, to, graph) ==
    [ body_set     |-> Integrate(ph.body_set, to),
      collider_set |-> Register(RemoveAll(ph.collider_set, Orphans(ph))),
      contacts     |-> graph ]

-----------------------------------------------------------------------------
(* Initial states.                                                         *)

\* The go_boom() calls made in a row since the last update(): their number
\* and the velocity before the first of them.
Run(n, from) == [n |-> n, from |-> from]

\* A call on Physics and how it ended.  `again` marks a collisions call
\* that repeats the call made right before it.
Call(op, handle, stale, ok, entries) ==
    [op |-> op, handle |-> handle, stale |-> stale, ok |-> ok,
     entries |-> entries, again |-> FALSE]

PhysicsInit ==
    /\ physics = PhysicsNew
    /\ last = Call("new", NoHandle, FALSE, TRUE, {})
    /\ issued = {}
    /\ destroyed = {}

PlayerInit ==
    /\ \E x \in 0..MaxPosX : player = new(x)
    /\ booms = 0
    /\ ticks = 0
    /\ airborne = 0
    /\ run = Run(0, player.velocity)

Init == PlayerInit /\ PhysicsInit

\* The Player states sub-step a is applied to: pos_y is a public field the
\* caller may write, velocity a sum of launch impulses and gravity steps,
\* going_boom either value.
InputPosY == { F32Lit(n, 10) : n \in {-25, 0, 25, 49} }
InputVelocity == { F32Lit(n, 10) : n \in {-25, -24, 0, 25} }

InitSubStep ==
    /\ \E y \in InputPosY, v \in InputVelocity, b \in BOOLEAN :
         player = [new(0) EXCEPT !.pos_y = y, !.velocity = v, !.going_boom = b]
    /\ booms = 0
    /\ ticks = 0
    /\ airborne = 0
    /\ run = Run(0, player.velocity)
    /\ PhysicsInit

InitPhysics ==
    /\ player = new(0)
    /\ booms = 0
    /\ ticks = 0
    /\ airborne = 0
    /\ run = Run(0, player.velocity)
    /\ PhysicsInit

-----------------------------------------------------------------------------
(* Actions on the Player.                                                  *)

GoBoom ==
    /\ booms < MaxBooms
    /\ player' = go_boom(player)
    /\ booms' = booms + 1
    /\ run' = Run(run.n + 1, run.from)
    /\ UNCHANGED <<ticks, airborne, physicsVars>>

Update(gonna_boom) ==
    /\ ticks < MaxTicks
    /\ player' = update(player, gonna_boom)
    /\ ticks' = ticks + 1
    /\ airborne' = IF gonna_boom THEN airborne + 1 ELSE airborne
    /\ run' = Run(0, player'.velocity)
    /\ UNCHANGED <<booms, physicsVars>>

UpdateAirborne == Update(TRUE)

UpdateGrounded == Update(FALSE)

\* The launch-and-settle scenario: one go_boom() from the state of
\* Player::new, then update(false) tick after tick (no bound on the ticks).
LaunchOnce ==
    /\ booms = 0
    /\ player' = go_boom(player)
    /\ booms' = 1
    /\ run' = Run(run.n + 1, run.from)
    /\ UNCHANGED <<ticks, airborne, physicsVars>>

Tick ==
    /\ booms = 1
    /\ player' = update(player, FALSE)
    /\ run' = Run(0, player'.velocity)
    /\ UNCHANGED <<booms, ticks, airborne, physicsVars>>

\* Launch after launch: a go_boom() at rest (before the first launch or
\* after a landing) or within MaxTicks frames of the launch before, then
\* update(false) frame after frame.  `ticks` counts the frames since the
\* last go_boom(), up to MaxTicks.
Relaunch ==
    /\ booms < MaxBooms
    /\ ~player.going_boom \/ ticks < MaxTicks
    /\ player' = go_boom(player)
    /\ booms' = booms + 1
    /\ ticks' = 0
    /\ run' = Run(run.n + 1, run.from)
    /\ UNCHANGED <<airborne, physicsVars>>

Frame ==
    /\ booms > 0
    /\ player' = update(player, FALSE)
    /\ ticks' = IF ticks < MaxTicks THEN ticks + 1 ELSE ticks
    /\ run' = Run(0, player'.velocity)
    /\ UNCHANGED <<booms, airborne, physicsVars>>

-----------------------------------------------------------------------------
(* Actions on Physics.  A call that panics ends the program: no call       *)
(* follows one that did not return (last.ok = FALSE).                      *)

IssuedHandles == {r.handle : r \in issued}

\* A create_* call with result r, which tags the collider `tag`.
Created(op, r, tag) ==
    /\ physics' = r.physics
    /\ last' = Call(op, r.handle, FALSE, TRUE, {})
    /\ issued' = issued \cup {[handle |-> r.handle, tag |-> tag]}
    /\ UNCHANGED <<destroyed, playerVars>>

CanCreate == last.ok /\ Cardinality(issued) < MaxCreates

CreateTile ==
    /\ CanCreate
    /\ \E pos \in Positions, sz \in Sizes :
         Created("create_tile", create_tile(physics, pos, sz[1], sz[2]), "Ground")

CreatePlayer ==
    /\ CanCreate
    /\ \E pos \in Positions, sz \in Sizes :
         Created("create_player", create_player(physics, pos, sz[1], sz[2]), "Player")

CreateEnemy ==
    /\ CanCreate
    /\ \E pos \in Positions, sz \in Sizes :
         Created("create_enemy", create_enemy(physics, pos, sz[1], sz[2]), "Enemy")

CreateBarrel ==
    /\ CanCreate
    /\ \E pos \in Positions, sz \in Sizes :
         Created("create_barrel", create_barrel(physics, pos, sz[1], sz[2]), "Barrel")

CreateBullet ==
    /\ CanCreate
    /\ \E pos \in Positions, sz \in Sizes :
         Created("create_bullet", create_bullet(physics, pos, sz[1], sz[2]), "Bullet")

GetRigidBody ==
    /\ last.ok
    /\ \E h \in IssuedHandles :
         /\ last' = Call("get_rigid_body", h, h \in destroyed,
                         get_rigid_body_ok(physics, h), {})
         /\ UNCHANGED <<physics, issued, destroyed, playerVars>>

GetRigidBodyMut ==
    /\ last.ok
    /\ \E h \in IssuedHandles, pos \in Positions :
         /\ last' = Call("get_rigid_body_mut", h, h \in destroyed,
                         get_rigid_body_mut_ok(physics, h), {})
         /\ physics' = IF get_rigid_body_mut_ok(physics, h)
                       THEN set_position(physics, h, pos)
                       ELSE physics
         /\ UNCHANGED <<issued, destroyed, playerVars>>

Collisions ==
    /\ last.ok
    /\ \E h \in IssuedHandles :
         /\ last' = [Call("collisions", h, h \in destroyed,
                          collisions_ok(physics, h),
                          IF collisions_ok(physics, h)
                          THEN collisions(physics, h) ELSE {})
                       EXCEPT !.again = (last.op = "collisions" /\ last.handle = h)]
         /\ physics' = collisions_self(physics, h)
         /\ UNCHANGED <<issued, destroyed, playerVars>>

DestroyBody ==
    /\ last.ok
    /\ \E h \in IssuedHandles :
         /\ physics' = destroy_body(physics, h)
         /\ last' = Call("destroy_body", h, h \in destroyed, TRUE, {})
         /\ destroyed' = destroyed \cup {h}
         /\ UNCHANGED <<issued, playerVars>>

Step ==
    /\ last.ok
    /\ \E to \in [1..Len(physics.body_set.items) -> Positions] :
         \E g \in ContactGraphs(physics, ArenaHandles(
                     RemoveAll(physics.collider_set, Orphans(physics)))) :
             physics' = step(physics, to, g)
    /\ last' = Call("step", NoHandle, FALSE, TRUE, {})
    /\ UNCHANGED <<issued, destroyed, playerVars>>

-----------------------------------------------------------------------------
(* Specifications.                                                         *)

vars == <<player, booms, ticks, airborne, run, physics, last, issued, destroyed>>

NextLaunch == LaunchOnce \/ Tick

NextRelaunch == Relaunch \/ Frame

NextPlayer == GoBoom \/ UpdateAirborne \/ UpdateGrounded

NextPhysics ==
    \/ CreateTile \/ CreatePlayer \/ CreateEnemy \/ CreateBarrel \/ CreateBullet
    \/ GetRigidBody \/ GetRigidBodyMut \/ Collisions \/ DestroyBody \/ Step

\* One go_boom() from rest, then update(false) on every frame: the game
\* loop calls update once per frame, so the tick is weakly fair.
SpecLaunch == Init /\ [][NextLaunch]_vars /\ WF_vars(Tick)

\* go_boom() calls at rest and in mid-air, update(false) on every frame.
SpecRelaunch == Init /\ [][NextRelaunch]_vars /\ WF_vars(Frame)

\* Any sequence of go_boom() and update(b) calls.
SpecPlayer == Init /\ [][NextPlayer]_vars

\* The same calls, from the states of InitSubStep.
SpecSubStep == InitSubStep /\ [][NextPlayer]_vars

\* Any sequence of calls on Physics.
SpecPhysics == InitPhysics /\ [][NextPhysics]_vars

-----------------------------------------------------------------------------
(* Claims about the Player.                                                *)

Rest(p) == p.pos_y = F32Zero /\ ~p.going_boom

\* The state go_boom() leaves when called on the state of Player::new.
Launched(p) ==
    /\ p.pos_y = F32Zero
    /\ p.velocity = F32Lit(-25, 10)
    /\ p.going_boom

\* C1: from the rest state of Player::new, after one go_boom() and with
\* update(false) called tick after tick, a tick is eventually reached at
\* whose end pos_y == 0 and going_boom == false.
C1_LaunchSettles == (booms = 1) ~> (booms = 1 /\ Rest(player))

\* The trajectory has landed: a launch was made and the player is at rest,
\* with the downward velocity of the fall left in place.
C1_Witness == booms = 1 /\ Rest(player) /\ F32Pos0(player.velocity)

\* C2: from the rest state, after one go_boom() and any number of
\* update(false) calls, pos_y >= 0 at the end of every tick.
C2_NeverBelowZero == booms = 1 => ~F32Neg0(player.pos_y)

\* The last tick in the air: falling, above zero, and closer to zero than
\* one more displacement by the current velocity.
C2_Witness ==
    /\ booms = 1
    /\ player.going_boom
    /\ F32Pos0(player.pos_y)
    /\ F32Pos0(player.velocity)
    /\ F32Neg0(F32Sub(player.pos_y, player.velocity))

\* C3: in every state reachable by go_boom() and update(b) calls,
\* going_boom == false implies pos_y >= 0.
C3_RestNonNegative == ~player.going_boom => ~F32Neg0(player.pos_y)

\* C10: from rest, go_boom() gives velocity = -2.5 and going_boom = true,
\* and the first update(false) then gives pos_y = 2.5 after sub-step a and
\* ends with velocity = -2.4, pos_y = 4.9 and going_boom = true.
C10_FirstTick ==
    [][ /\ (booms = 0 /\ booms' = 1) => Launched(player')
        /\ (Launched(player) /\ player' # player) =>
              /\ SubStepA(player).pos_y = F32Lit(25, 10)
              /\ SubStepA(player).velocity = F32Lit(-25, 10)
              /\ player'.velocity = F32Lit(-24, 10)
              /\ player'.pos_y = F32Lit(49, 10)
              /\ player'.going_boom ]_vars

\* The end of the first tick after the launch.
C10_Witness ==
    /\ booms = 1
    /\ player.velocity = F32Lit(-24, 10)
    /\ player.pos_y = F32Lit(49, 10)
    /\ player.going_boom

\* a < b in f32.
F32Lt(a, b) == F32Neg0(F32Sub(a, b))

\* C11: go_boom() in any state lowers velocity by 2.5, sets going_boom and
\* leaves pos_y and gravity as they were; after n go_boom() calls in a row
\* the velocity is the velocity before the first of them less 2.5 * n.
C11_ImpulseStacks ==
    [][ booms' = booms + 1 =>
          /\ player'.velocity = F32Sub(player.velocity, F32Lit(25, 10))
          /\ F32Lt(player'.velocity, player.velocity)
          /\ player'.going_boom
          /\ player'.pos_y = player.pos_y
          /\ player'.gravity = player.gravity
          /\ run'.n = run.n + 1
          /\ player'.velocity = F32Sub(run'.from, F32Lit(25 * run'.n, 10))
      ]_vars

\* Two go_boom() calls in a row, made in mid-air after an update(true) had
\* brought the velocity to 0.1.
C11_Witness ==
    /\ run.n = 2
    /\ run.from = F32Lit(1, 10)
    /\ player.velocity = F32Lit(-49, 10)
    /\ player.going_boom

\* C12: every update(true) call raises velocity by gravity (0.1), whether
\* going_boom is set or not: over a run of update(true) ticks the velocity
\* is strictly increasing.
C12_AirborneGravity ==
    [][ airborne' = airborne + 1 =>
          /\ player.gravity = F32Lit(1, 10)
          /\ player'.gravity = player.gravity
          /\ player'.velocity = F32Add[player.velocity, player.gravity]
          /\ F32Lt(player.velocity, player'.velocity)
      ]_vars

\* Two update(true) ticks and no other tick, after a launch that is still
\* under way.
C12_Witness ==
    /\ airborne = 2
    /\ ticks = 2
    /\ booms = 1
    /\ player.going_boom
    /\ player.velocity = F32Add[F32Add[F32Lit(-25, 10), F32Lit(1, 10)], F32Lit(1, 10)]

\* C15: from every state reached by go_boom() and update(false) calls, the
\* state a landing leaves included, a go_boom() followed by update(false)
\* frame after frame leads to a frame that ends with pos_y == 0 and
\* going_boom == false.
C15_EveryLaunchSettles == player.going_boom ~> Rest(player)

\* The second launch was made from the state the first landing left (its
\* fall velocity still in place) and has settled too.
C15_Witness ==
    /\ booms = 2
    /\ Rest(player)
    /\ F32Pos0(player.velocity)
    /\ F32Lt(player.velocity, F32Lit(1, 10))

\* C16: in an update() that finds going_boom set, sub-step a resets
\* going_boom and sets pos_y to 0 if and only if pos_y - velocity < 0; when
\* pos_y - velocity is 0, going_boom stays set for that tick; sub-step a
\* leaves velocity as it was.
C16_LandingStrictlyBelowZero ==
    [][ (ticks' = ticks + 1 /\ player.going_boom) =>
          LET y == F32Sub(player.pos_y, player.velocity)
              a == SubStepA(player)
          IN  /\ (~a.going_boom /\ a.pos_y = F32Zero) <=> F32Neg0(y)
              /\ y = F32Zero => (a.going_boom /\ a.pos_y = F32Zero)
              /\ F32Pos0(y) => (a.going_boom /\ a.pos_y = y)
              /\ a.velocity = player.velocity
              /\ player' = SubStepB(a, airborne' # airborne)
              /\ F32Neg0(y) => ~player'.going_boom
              /\ ~F32Neg0(y) => player'.going_boom
      ]_vars

\* An update(false) found going_boom set and pos_y - velocity == 0: the
\* tick ends at pos_y == 0 with going_boom still set and the velocity
\* untouched.
C16_Witness ==
    /\ ticks = 1
    /\ airborne = 0
    /\ booms = 0
    /\ player.going_boom
    /\ player.pos_y = F32Zero
    /\ player.velocity = F32Lit(25, 10)

-----------------------------------------------------------------------------
(* Claims about Physics.                                                   *)

LiveHandles == IssuedHandles \ destroyed

\* The tag the create_* call that returned h gave its collider.
TagOf(h) == (CHOOSE r \in issued : r.handle = h).tag

\* C4: after destroy_body(h), get_rigid_body(h) and get_rigid_body_mut(h)
\* panic and return no body, also after later create_* calls have reused
\* the freed slot.
C4_StaleHandleFails ==
    (last.op \in {"get_rigid_body", "get_rigid_body_mut"} /\ last.stale)
        => ~last.ok

\* get_rigid_body panicked on a destroyed handle whose slot holds a newer
\* body.
C4_Witness ==
    /\ last.op = "get_rigid_body"
    /\ last.stale
    /\ ~last.ok
    /\ \E h \in ArenaHandles(physics.body_set) : h.index = last.handle.index

\* C5: the handle a create_* call returns is distinct from every handle
\* that is live when the call is made.
C5_FreshHandle ==
    [][ last'.op \in {"create_tile", "create_player", "create_enemy",
                      "create_barrel", "create_bullet"}
          => last'.handle \notin ArenaHandles(physics.body_set) ]_vars

\* A create_* call returned a handle while another body was live.
C5_Witness ==
    /\ last.op \in {"create_tile", "create_player", "create_enemy",
                    "create_barrel", "create_bullet"}
    /\ Cardinality(ArenaHandles(physics.body_set)) = 2
    /\ last.handle \in ArenaHandles(physics.body_set)

\* C6: every operation that takes a handle panics when given a handle that
\* was already destroyed, a second destroy_body(h) and a collisions(h)
\* after destroy_body(h) included.
C6_DestroyedHandleFailsFast ==
    (last.op \in {"get_rigid_body", "get_rigid_body_mut", "collisions",
                  "destroy_body"} /\ last.stale)
        => ~last.ok

\* The bodies and the colliders of a store, by handle.
Content(arena) == [h \in ArenaHandles(arena) |-> ArenaGet(arena, h)]

\* The colliders attached to body h.
CollidersOf(ph, h) ==
    { c \in ArenaHandles(ph.collider_set) :
        ArenaGet(ph.collider_set, c).body = h }

Without(f, hs) == [h \in DOMAIN f \ hs |-> f[h]]

\* C7: destroy_body(h) for a live handle h removes exactly body h and the
\* collider attached to body h; every other body and every other collider
\* is still in its store, unchanged.
C7_DestroyRemovesExactly ==
    [][ (last'.op = "destroy_body" /\ ~last'.stale) =>
          LET h == last'.handle IN
          /\ h \in ArenaHandles(physics.body_set)
          /\ CollidersOf(physics, h) # {}
          /\ Content(physics'.body_set) = Without(Content(physics.body_set), {h})
          /\ Content(physics'.collider_set) =
                Without(Content(physics.collider_set), CollidersOf(physics, h))
      ]_vars

\* destroy_body removed a live body and left another body and its
\* collider in place.
C7_Witness ==
    /\ last.op = "destroy_body"
    /\ ~last.stale
    /\ ArenaHandles(physics.body_set) # {}
    /\ ArenaHandles(physics.collider_set) # {}

\* The two colliders of a stored contact are both in the collider set.
InContact(c) ==
    /\ c \in physics.contacts
    /\ ArenaContains(physics.collider_set, c[1])
    /\ ArenaContains(physics.collider_set, c[2])

\* C8: whenever A and B are in contact after a step, collisions(A) has an
\* entry with tags (tag(A), tag(B)) and other handle B, and collisions(B)
\* has one with tags (tag(B), tag(A)) and other handle A, in whichever
\* order the step stored the two colliders of the contact.
C8_CollisionSymmetry ==
    (last.op = "collisions" /\ last.ok) =>
        \A c \in physics.contacts :
            (InContact(c) /\ last.handle \in {c[1], c[2]}) =>
                LET A == last.handle
                    B == OtherEnd(c, A)
                IN  [tags |-> <<TagOf(A), TagOf(B)>>, other |-> B]
                        \in last.entries

\* collisions was called on the collider the step stored second in a
\* contact between colliders of different tags, and returned the entry of
\* that contact seen from the queried side.
C8_Witness ==
    /\ last.op = "collisions"
    /\ last.ok
    /\ \E c \in physics.contacts :
           /\ InContact(c)
           /\ c[2] = last.handle
           /\ TagOf(c[1]) # TagOf(c[2])
           /\ [tags |-> <<TagOf(c[2]), TagOf(c[1])>>, other |-> c[1]]
                  \in last.entries

\* C9: the tag resolved for a handle is the tag its create_* call set, on
\* every lookup from its creation to its destruction, whatever calls are
\* made in between.
C9_TagFixed ==
    \A h \in LiveHandles :
        /\ get_user_data_ok(physics, h, h)
        /\ get_user_data(physics, h, h) = <<TagOf(h), TagOf(h)>>
        /\ (last.op = "collisions" /\ last.handle = h) =>
              \A e \in last.entries :
                  \E c \in contacts_with(physics, h) :
                      /\ e.other = c[2]
                      /\ e.tags = <<TagOf(c[1]), TagOf(c[2])>>

\* A collisions call returned a contact between two colliders of
\* different tags.
C9_Witness ==
    /\ last.op = "collisions"
    /\ last.entries # {}
    /\ \A e \in last.entries : e.tags[1] # e.tags[2]

\* C13: every body of the body set has exactly one collider attached to
\* it, and every collider of the collider set is attached to a body of the
\* body set.
C13_OneColliderPerBody ==
    /\ \A b \in ArenaHandles(physics.body_set) :
           Cardinality(CollidersOf(physics, b)) = 1
    /\ Orphans(physics) = {}

\* After a create, a destroy, a create into the freed slot and a step: one
\* body is live, with one collider.
C13_Witness ==
    /\ last.op = "step"
    /\ destroyed # {}
    /\ \E b \in ArenaHandles(physics.body_set) :
           b.generation > 0 /\ Cardinality(CollidersOf(physics, b)) = 1

\* The body and the collider a create_* call has just made.
NewBody == ArenaGet(physics'.body_set, last'.handle)
NewCollider ==
    ArenaGet(physics'.collider_set,
             CHOOSE c \in CollidersOf(physics', last'.handle) : TRUE)

\* The stores with the tag of the one collider of body h set to `tag`.
Retagged(ph, h, tag) ==
    LET c == CHOOSE x \in CollidersOf(ph, h) : TRUE IN
    [ph EXCEPT !.collider_set.items[c.index + 1].value.user_data = tag]

\* C14: create_tile makes a Static body with a collider tagged Ground;
\* create_player, create_enemy, create_barrel and create_bullet each make a
\* Dynamic body of mass 10 and linear damping 1 with a collider tagged
\* Player, Enemy, Barrel and Bullet; but for the tag, the four leave the
\* stores the same and return the same handle.
C14_CreatedBodies ==
    [][ /\ last'.op = "create_tile" =>
              /\ NewBody.status = "Static"
              /\ NewCollider.user_data = "Ground"
        /\ last'.op \in {"create_player", "create_enemy", "create_barrel",
                          "create_bullet"} =>
              /\ NewBody.status = "Dynamic"
              /\ NewBody.mass = 10
              /\ NewBody.linear_damping = 1
              /\ NewCollider.user_data =
                    CASE last'.op = "create_player" -> "Player"
                      [] last'.op = "create_enemy"  -> "Enemy"
                      [] last'.op = "create_barrel" -> "Barrel"
                      [] last'.op = "create_bullet" -> "Bullet"
              /\ \E pos \in Positions, sz \in Sizes :
                    \A r \in { create_player(physics, pos, sz[1], sz[2]),
                                create_enemy(physics, pos, sz[1], sz[2]),
                                create_barrel(physics, pos, sz[1], sz[2]),
                                create_bullet(physics, pos, sz[1], sz[2]) } :
                        /\ r.handle = last'.handle
                        /\ Retagged(r.physics, r.handle, "Player")
                              = Retagged(physics', last'.handle, "Player")
      ]_vars

\* A bullet was created next to a live tile.
C14_Witness ==
    /\ last.op = "create_bullet"
    /\ ArenaContains(physics.body_set, last.handle)
    /\ ArenaGet(physics.body_set, last.handle).mass = 10
    /\ \E t \in ArenaHandles(physics.body_set) :
           ArenaGet(physics.body_set, t).status = "Static"

\* C17: collisions(h) leaves the body set, the collider set and the contact
\* graph as they were, and a collisions(h) call made right after another
\* returns the same entries.
C17_CollisionsReadOnly ==
    [][ last'.op = "collisions" =>
          /\ physics'.body_set = physics.body_set
          /\ physics'.collider_set = physics.collider_set
          /\ physics'.contacts = physics.contacts
          /\ last'.again => (last'.ok /\ last'.entries = last.entries)
      ]_vars

\* collisions(h) was called twice in a row and returned a contact.
C17_Witness ==
    /\ last.op = "collisions"
    /\ last.again
    /\ last.entries # {}

\* C18: collisions(h) for a live handle h returns, whatever calls were
\* made before it: also when a body that was in contact with h at the last
\* step has been destroyed since and no step has run.
C18_CollisionsCompletes ==
    (last.op = "collisions" /\ ~last.stale) => last.ok

\* C19: the body set and the collider set hold the same handles, and the
\* collider stored under a handle is the collider attached to the body of
\* that handle: the handle a create_* call returned addresses, in the
\* collider set, the collider of that body and no other.
C19_Lockstep ==
    /\ ArenaHandles(physics.collider_set) = ArenaHandles(physics.body_set)
    /\ \A h \in ArenaHandles(physics.body_set) :
           /\ ArenaContains(physics.collider_set, h)
           /\ ArenaGet(physics.collider_set, h).body = h
           /\ CollidersOf(physics, h) = {h}
    /\ \A h \in LiveHandles :
           /\ ArenaContains(physics.body_set, h)
           /\ ArenaGet(physics.collider_set, h).user_data = TagOf(h)

\* A create_* call filled a freed slot: the body and its collider are both
\* stored under the new generation of the slot.
C19_Witness ==
    /\ last.op \in {"create_tile", "create_player", "create_enemy",
                    "create_barrel", "create_bullet"}
    /\ last.handle.generation > 0
    /\ ArenaContains(physics.body_set, last.handle)
    /\ ArenaContains(physics.collider_set, last.handle)
    /\ ArenaGet(physics.collider_set, last.handle).body = last.handle

====
